---------------------------- MODULE Spec2Model ----------------------------
(***************************************************************************)
(* A model of librustc/mir/repr.rs: the MIR control-flow graph (basic      *)
(* blocks, terminators and their successor edges), the index newtypes and  *)
(* the accessors of a block's terminator.                                  *)
(*                                                                         *)
(* Six specifications share the variables:                                 *)
(*   Spec       a function body (Mir) being built and restructured, and    *)
(*              the accessors of its blocks;                               *)
(*   SpecTerm   one terminator and the functions of TerminatorKind         *)
(*              applied to it;                                             *)
(*   SpecIndex  the constructors of the index newtypes applied to a usize; *)
(*   SpecAccess the indexed accessors of a function body;                  *)
(*   SpecLvalue places built by projection from a root, and their          *)
(*              rendering;                                                 *)
(*   SpecDummy  constants and SwitchInt terminators that may hold the      *)
(*              Dummy literal.                                             *)
(***************************************************************************)
EXTENDS Integers, Sequences, FiniteSets, TLC

VARIABLES
    basic_blocks,   \* Mir::basic_blocks: the Vec<BasicBlockData>
    term,           \* the TerminatorKind the functions of SpecTerm act on
    lvalues,        \* the Lvalue values held by the callers of SpecLvalue
    ret             \* the last call: its name, its arguments and its result

vars == <<basic_blocks, term, lvalues, ret>>

---------------------------------------------------------------------------
(* Bounds of the model.                                                    *)

\* Blocks of a function body; block indices are 0 .. MaxBlocks - 1.
MaxBlocks == 2

\* Variants of the largest aggregate type a Switch is over.
MaxVariants == 3

\* Listed values of the largest SwitchInt.
MaxValues == 2

\* Places held at once, the root included.
MaxPlaces == 3

\* Statements of a function body, over all its blocks.
MaxStatements == 1

\* Width of u32 in the model; usize is twice as wide (TLC's integers are
\* 32-bit, so the widths are scaled down and every cast keeps its modulus).
IndexBits == 4

---------------------------------------------------------------------------
(* Option<T>, and the outcome of a call that may panic.                    *)

None == <<>>

Some(x) == <<x>>

IsSome(o) == o # <<>>

Unwrap(o) == o[1]

Ok(v) == [panic |-> FALSE, val |-> v]

Panic(m) == [panic |-> TRUE, msg |-> m]

RECURSIVE Pow2(_)
Pow2(n) == IF n = 0 THEN 1 ELSE 2 * Pow2(n - 1)

\* Display of an unsigned integer: its decimal digits.
Digit(d) == <<"0", "1", "2", "3", "4", "5", "6", "7", "8", "9">>[d + 1]

RECURSIVE NatToStr(_)
NatToStr(n) == IF n < 10 THEN Digit(n) ELSE NatToStr(n \div 10) \o Digit(n % 10)

SeqsUpTo(S, n) == UNION {[1..k -> S] : k \in 0..n}

---------------------------------------------------------------------------
(* Index newtypes: BasicBlock(u32), Field(u32), ScopeId(u32).              *)

U32_MAX == Pow2(IndexBits) - 1

USIZE_MAX == Pow2(2 * IndexBits) - 1

Usize == 0..USIZE_MAX

\* x as u32: truncation to the low bits.
AsU32(x) == x % Pow2(IndexBits)

\* x as usize of a u32: widening.
AsUsize(x) == x

BasicBlockNew_OffByOne(index) ==
    IF index <= AsUsize(U32_MAX) THEN Ok(AsU32(index))
    ELSE Panic("assertion failed: index < (u32::MAX as usize)")

\* BasicBlock::new
BasicBlockNew(index) ==
    IF index < AsUsize(U32_MAX) THEN Ok(AsU32(index))
    ELSE Panic("assertion failed: index < (u32::MAX as usize)")

\* BasicBlock::index
BasicBlockIndex(self) == AsUsize(self)

\* Field::new
FieldNew(value) ==
    IF value < AsUsize(U32_MAX) THEN Ok(AsU32(value))
    ELSE Panic("assertion failed: value < (u32::MAX) as usize")

\* Field::index
FieldIndex(self) == AsUsize(self)

\* ScopeId::new
ScopeIdNew(index) ==
    IF index < AsUsize(U32_MAX) THEN Ok(AsU32(index))
    ELSE Panic("assertion failed: index < (u32::MAX as usize)")

\* ScopeId::index
ScopeIdIndex(self) == AsUsize(self)

IndexTypes == {"BasicBlock", "Field", "ScopeId"}

IndexNew(ty, i) ==
    CASE ty = "BasicBlock" -> BasicBlockNew(i)
      [] ty = "Field" -> FieldNew(i)
      [] ty = "ScopeId" -> ScopeIdNew(i)

IndexIndex(ty, x) ==
    CASE ty = "BasicBlock" -> BasicBlockIndex(x)
      [] ty = "Field" -> FieldIndex(x)
      [] ty = "ScopeId" -> ScopeIdIndex(x)

\* impl Debug for BasicBlock
BasicBlockFmt(bb) == "bb" \o NatToStr(bb)

---------------------------------------------------------------------------
(* Text written by a formatter: a call either returns the text or panics.  *)
(* Cat writes r1 and then r2; the first panic met ends the rendering.      *)

Cat(r1, r2) ==
    IF r1.panic THEN r1
    ELSE IF r2.panic THEN r2
    ELSE Ok(r1.val \o r2.val)

RECURSIVE CatAll(_)
CatAll(rs) == IF rs = <<>> THEN Ok("") ELSE Cat(Head(rs), CatAll(Tail(rs)))

---------------------------------------------------------------------------
(* Constants (middle::const_val::ConstVal), places and operands.           *)

Integral(n) == [kind |-> "Integral", n |-> n]

Bool(b) == [kind |-> "Bool", b |-> b]

Dummy == [kind |-> "Dummy"]

\* Display of rustc_const_math::ConstInt, for an integer of inferred type.
ConstIntDisplay(n) == NatToStr(n)

FmtConstVal_DummyAsText(const_val) ==
    CASE const_val.kind = "Integral" -> Ok(ConstIntDisplay(const_val.n))
      [] const_val.kind = "Bool" -> Ok(IF const_val.b THEN "true" ELSE "false")
      [] const_val.kind = "Dummy" -> Ok("Dummy")

\* fmt_const_val
FmtConstVal(const_val) ==
    CASE const_val.kind = "Integral" -> Ok(ConstIntDisplay(const_val.n))
      [] const_val.kind = "Bool" -> Ok(IF const_val.b THEN "true" ELSE "false")
      [] const_val.kind = "Dummy" -> Panic("bug!()")

\* Lvalue::Var, Lvalue::Temp, Lvalue::Arg, Lvalue::ReturnPointer
Var(id) == [kind |-> "Var", id |-> id]

Temp(id) == [kind |-> "Temp", id |-> id]

Arg(id) == [kind |-> "Arg", id |-> id]

ReturnPointer == [kind |-> "ReturnPointer"]

\* Lvalue::Projection(Box<LvalueProjection>)
Projection(base, elem) == [kind |-> "Projection", base |-> base, elem |-> elem]

\* ProjectionElem::Deref, Field, Index, ConstantIndex, Downcast
Deref == [kind |-> "Deref"]

Field(field, ty) == [kind |-> "Field", field |-> field, ty |-> ty]

Index(v) == [kind |-> "Index", index |-> v]

ConstantIndex(offset, min_length, from_end) ==
    [kind |-> "ConstantIndex", offset |-> offset, min_length |-> min_length,
     from_end |-> from_end]

Downcast(adt_def, index) == [kind |-> "Downcast", adt_def |-> adt_def, index |-> index]

LvalueElem_UnderTheBase(self, elem) ==
    IF self.kind = "Projection"
    THEN Projection(Projection(self.base, elem), self.elem)
    ELSE Projection(self, elem)

\* Lvalue::elem
LvalueElem(self, elem) == Projection(self, elem)

LvalueField_AsDeref(self, f, ty) == LvalueElem(self, Deref)

\* Lvalue::field
LvalueField(self, f, ty) == LvalueElem(self, Field(f, ty))

\* Lvalue::deref
LvalueDeref(self) == LvalueElem(self, Deref)

\* Lvalue::index
LvalueIndex(self, index) == LvalueElem(self, Index(index))

\* Operand::Consume, Operand::Constant (a Constant with a Literal::Value)
Consume(lv) == [kind |-> "Consume", lvalue |-> lv]

Constant(cv) == [kind |-> "Constant", literal |-> [kind |-> "Value", value |-> cv]]

\* impl Debug for Literal
LiteralFmt(lit) == Cat(Ok("const "), FmtConstVal(lit.value))

RECURSIVE LvalueFmt(_)

\* impl Debug for Operand
OperandFmt(op) ==
    CASE op.kind = "Constant" -> LiteralFmt(op.literal)
      [] op.kind = "Consume" -> LvalueFmt(op.lvalue)

\* A type, by the name it is displayed with.
Ty(name) == [name |-> name]

\* Debug of a Ty
TyFmt(ty) == Ok(ty.name)

ProjectionFmt_DerefBare(base, elem) ==
    CASE elem.kind = "Downcast" ->
            IF elem.index < Len(elem.adt_def.variants)
            THEN CatAll(<<Ok("("), base, Ok(" as "),
                          Ok(elem.adt_def.variants[elem.index + 1].name), Ok(")")>>)
            ELSE Panic("index out of bounds")
      [] elem.kind = "Deref" -> CatAll(<<Ok("*"), base>>)
      [] elem.kind = "Field" ->
            CatAll(<<Ok("("), base, Ok("."), Ok(NatToStr(FieldIndex(elem.field))),
                     Ok(": "), TyFmt(elem.ty), Ok(")")>>)
      [] elem.kind = "Index" -> CatAll(<<base, Ok("["), OperandFmt(elem.index), Ok("]")>>)
      [] elem.kind = "ConstantIndex" /\ ~elem.from_end ->
            CatAll(<<base, Ok("["), Ok(NatToStr(elem.offset)), Ok(" of "),
                     Ok(NatToStr(elem.min_length)), Ok("]")>>)
      [] elem.kind = "ConstantIndex" /\ elem.from_end ->
            CatAll(<<base, Ok("[-"), Ok(NatToStr(elem.offset)), Ok(" of "),
                     Ok(NatToStr(elem.min_length)), Ok("]")>>)

\* impl Debug for Lvalue, the Projection arm: base is the rendering of
\* data.base.  adt_def.variants[index] is evaluated as an argument of the
\* write, and panics when the index names no variant.
ProjectionFmt(base, elem) ==
    CASE elem.kind = "Downcast" ->
            IF elem.index < Len(elem.adt_def.variants)
            THEN CatAll(<<Ok("("), base, Ok(" as "),
                          Ok(elem.adt_def.variants[elem.index + 1].name), Ok(")")>>)
            ELSE Panic("index out of bounds")
      [] elem.kind = "Deref" -> CatAll(<<Ok("(*"), base, Ok(")")>>)
      [] elem.kind = "Field" ->
            CatAll(<<Ok("("), base, Ok("."), Ok(NatToStr(FieldIndex(elem.field))),
                     Ok(": "), TyFmt(elem.ty), Ok(")")>>)
      [] elem.kind = "Index" -> CatAll(<<base, Ok("["), OperandFmt(elem.index), Ok("]")>>)
      [] elem.kind = "ConstantIndex" /\ ~elem.from_end ->
            CatAll(<<base, Ok("["), Ok(NatToStr(elem.offset)), Ok(" of "),
                     Ok(NatToStr(elem.min_length)), Ok("]")>>)
      [] elem.kind = "ConstantIndex" /\ elem.from_end ->
            CatAll(<<base, Ok("[-"), Ok(NatToStr(elem.offset)), Ok(" of "),
                     Ok(NatToStr(elem.min_length)), Ok("]")>>)

\* impl Debug for Lvalue (a Static is rendered by the type context and is not
\* among the places built here)
LvalueFmt(lv) ==
    CASE lv.kind = "Var" -> Ok("var" \o NatToStr(lv.id))
      [] lv.kind = "Arg" -> Ok("arg" \o NatToStr(lv.id))
      [] lv.kind = "Temp" -> Ok("tmp" \o NatToStr(lv.id))
      [] lv.kind = "ReturnPointer" -> Ok("return")
      [] lv.kind = "Projection" -> ProjectionFmt(LvalueFmt(lv.base), lv.elem)

---------------------------------------------------------------------------
(* TerminatorKind.                                                         *)

Goto(target) == [kind |-> "Goto", target |-> target]

If(cond, targets) == [kind |-> "If", cond |-> cond, targets |-> targets]

Switch(discr, adt_def, targets) ==
    [kind |-> "Switch", discr |-> discr, adt_def |-> adt_def, targets |-> targets]

SwitchInt(discr, switch_ty, values, targets) ==
    [kind |-> "SwitchInt", discr |-> discr, switch_ty |-> switch_ty,
     values |-> values, targets |-> targets]

Resume == [kind |-> "Resume"]

Return == [kind |-> "Return"]

Drop(value, target, unwind) ==
    [kind |-> "Drop", value |-> value, target |-> target, unwind |-> unwind]

Call(func, args, destination, cleanup) ==
    [kind |-> "Call", func |-> func, args |-> args,
     destination |-> destination, cleanup |-> cleanup]

\* The block in the continuation of a Call: destination is Some((lvalue, block)).
DestBlock(t) == Unwrap(t.destination)[2]

\* successors, the Goto arm
SuccessorsGoto(t) == <<t.target>>

SuccessorsIf_Swapped(t) == <<t.targets[2], t.targets[1]>>

\* successors, the If arm
SuccessorsIf(t) == <<t.targets[1], t.targets[2]>>

\* successors, the Switch arm
SuccessorsSwitch(t) == t.targets

SuccessorsSwitchInt_NoFallback(t) == SubSeq(t.targets, 1, Len(t.targets) - 1)

\* successors, the SwitchInt arm
SuccessorsSwitchInt(t) == t.targets

SuccessorsCall_UnwindFirst(t) ==
    CASE IsSome(t.destination) /\ IsSome(t.cleanup) -> <<Unwrap(t.cleanup), DestBlock(t)>>
      [] IsSome(t.destination) /\ ~IsSome(t.cleanup) -> <<DestBlock(t)>>
      [] ~IsSome(t.destination) /\ IsSome(t.cleanup) -> <<Unwrap(t.cleanup)>>
      [] ~IsSome(t.destination) /\ ~IsSome(t.cleanup) -> <<>>

\* successors, the four Call arms
SuccessorsCall(t) ==
    CASE IsSome(t.destination) /\ IsSome(t.cleanup) -> <<DestBlock(t), Unwrap(t.cleanup)>>
      [] IsSome(t.destination) /\ ~IsSome(t.cleanup) -> <<DestBlock(t)>>
      [] ~IsSome(t.destination) /\ IsSome(t.cleanup) -> <<Unwrap(t.cleanup)>>
      [] ~IsSome(t.destination) /\ ~IsSome(t.cleanup) -> <<>>

SuccessorsDrop_NoUnwind(t) == <<t.target>>

\* successors, the two Drop arms
SuccessorsDrop(t) ==
    IF IsSome(t.unwind) THEN <<t.target, Unwrap(t.unwind)>> ELSE <<t.target>>

\* TerminatorKind::successors
Successors(t) ==
    CASE t.kind = "Goto" -> SuccessorsGoto(t)
      [] t.kind = "If" -> SuccessorsIf(t)
      [] t.kind = "Switch" -> SuccessorsSwitch(t)
      [] t.kind = "SwitchInt" -> SuccessorsSwitchInt(t)
      [] t.kind = "Resume" -> <<>>
      [] t.kind = "Return" -> <<>>
      [] t.kind = "Call" -> SuccessorsCall(t)
      [] t.kind = "Drop" -> SuccessorsDrop(t)

\* A &mut BasicBlock into a terminator: the field it borrows, and for the
\* targets of If, Switch and SwitchInt the position in them.
RefTo(at) == [at |-> at, i |-> 0]

RefToTargets(i) == [at |-> "targets", i |-> i]

\* Reading through a &mut BasicBlock into t.
DerefBlock(t, r) ==
    CASE r.at = "target" -> t.target
      [] r.at = "targets" -> t.targets[r.i]
      [] r.at = "destination" -> DestBlock(t)
      [] r.at = "cleanup" -> Unwrap(t.cleanup)
      [] r.at = "unwind" -> Unwrap(t.unwind)

\* Writing b through a &mut BasicBlock into t.
WriteBlock(t, r, b) ==
    CASE r.at = "target" -> [t EXCEPT !.target = b]
      [] r.at = "targets" -> [t EXCEPT !.targets[r.i] = b]
      [] r.at = "destination" -> [t EXCEPT !.destination = Some(<<Unwrap(@)[1], b>>)]
      [] r.at = "cleanup" -> [t EXCEPT !.cleanup = Some(b)]
      [] r.at = "unwind" -> [t EXCEPT !.unwind = Some(b)]

SuccessorsMutCall_UnwindFirst(t) ==
    CASE IsSome(t.destination) /\ IsSome(t.cleanup) ->
            <<RefTo("cleanup"), RefTo("destination")>>
      [] IsSome(t.destination) /\ ~IsSome(t.cleanup) -> <<RefTo("destination")>>
      [] ~IsSome(t.destination) /\ IsSome(t.cleanup) -> <<RefTo("cleanup")>>
      [] ~IsSome(t.destination) /\ ~IsSome(t.cleanup) -> <<>>

\* successors_mut, the four Call arms
SuccessorsMutCall(t) ==
    CASE IsSome(t.destination) /\ IsSome(t.cleanup) ->
            <<RefTo("destination"), RefTo("cleanup")>>
      [] IsSome(t.destination) /\ ~IsSome(t.cleanup) -> <<RefTo("destination")>>
      [] ~IsSome(t.destination) /\ IsSome(t.cleanup) -> <<RefTo("cleanup")>>
      [] ~IsSome(t.destination) /\ ~IsSome(t.cleanup) -> <<>>

SuccessorsMutDrop_UnwindFirst(t) ==
    IF IsSome(t.unwind) THEN <<RefTo("unwind"), RefTo("target")>>
    ELSE <<RefTo("target")>>

\* successors_mut, the two Drop arms
SuccessorsMutDrop(t) ==
    IF IsSome(t.unwind) THEN <<RefTo("target"), RefTo("unwind")>>
    ELSE <<RefTo("target")>>

\* TerminatorKind::successors_mut
SuccessorsMut(t) ==
    CASE t.kind = "Goto" -> <<RefTo("target")>>
      [] t.kind = "If" -> <<RefToTargets(1), RefToTargets(2)>>
      [] t.kind = "Switch" -> [i \in 1..Len(t.targets) |-> RefToTargets(i)]
      [] t.kind = "SwitchInt" -> [i \in 1..Len(t.targets) |-> RefToTargets(i)]
      [] t.kind = "Resume" -> <<>>
      [] t.kind = "Return" -> <<>>
      [] t.kind = "Call" -> SuccessorsMutCall(t)
      [] t.kind = "Drop" -> SuccessorsMutDrop(t)

\* values.iter().map(|const_val| fmt_const_val(..).unwrap()): the labels of the
\* listed values, or the panic of the first value whose rendering panics.
RECURSIVE ValueLabels(_)
ValueLabels(values) ==
    IF values = <<>> THEN Ok(<<>>)
    ELSE LET first == FmtConstVal(Head(values))
             rest == ValueLabels(Tail(values))
         IN  IF first.panic THEN first
             ELSE IF rest.panic THEN rest
             ELSE Ok(<<first.val>> \o rest.val)

LabelsGoto_None(t) == Ok(<<>>)

\* fmt_successor_labels, the Goto arm
LabelsGoto(t) == Ok(<<"">>)

\* fmt_successor_labels, the If arm
LabelsIf(t) == Ok(<<"true", "false">>)

LabelsSwitch_Reversed(t) ==
    LET n == Len(t.adt_def.variants)
    IN  Ok([i \in 1..n |-> t.adt_def.variants[n + 1 - i].name])

\* fmt_successor_labels, the Switch arm
LabelsSwitch(t) ==
    Ok([i \in 1..Len(t.adt_def.variants) |-> t.adt_def.variants[i].name])

LabelsSwitchInt_NoOtherwise(t) == ValueLabels(t.values)

\* fmt_successor_labels, the SwitchInt arm
LabelsSwitchInt(t) ==
    LET labels == ValueLabels(t.values)
    IN  IF labels.panic THEN labels ELSE Ok(labels.val \o <<"otherwise">>)

\* fmt_successor_labels, the four Call arms
LabelsCall(t) ==
    CASE IsSome(t.destination) /\ IsSome(t.cleanup) -> Ok(<<"return", "unwind">>)
      [] IsSome(t.destination) /\ ~IsSome(t.cleanup) -> Ok(<<"return">>)
      [] ~IsSome(t.destination) /\ IsSome(t.cleanup) -> Ok(<<"unwind">>)
      [] ~IsSome(t.destination) /\ ~IsSome(t.cleanup) -> Ok(<<>>)

\* fmt_successor_labels, the two Drop arms
LabelsDrop(t) ==
    IF ~IsSome(t.unwind) THEN Ok(<<"return">>) ELSE Ok(<<"return", "unwind">>)

\* TerminatorKind::fmt_successor_labels
FmtSuccessorLabels(t) ==
    CASE t.kind \in {"Return", "Resume"} -> Ok(<<>>)
      [] t.kind = "Goto" -> LabelsGoto(t)
      [] t.kind = "If" -> LabelsIf(t)
      [] t.kind = "Switch" -> LabelsSwitch(t)
      [] t.kind = "SwitchInt" -> LabelsSwitchInt(t)
      [] t.kind = "Call" -> LabelsCall(t)
      [] t.kind = "Drop" -> LabelsDrop(t)

\* The arguments of a call, separated by ", ".
RECURSIVE ArgsFmt(_, _)
ArgsFmt(args, index) ==
    IF index > Len(args) THEN Ok("")
    ELSE CatAll(<<Ok(IF index > 1 THEN ", " ELSE ""), OperandFmt(args[index]),
                  ArgsFmt(args, index + 1)>>)

\* TerminatorKind::fmt_head
FmtHead(t) ==
    CASE t.kind = "Goto" -> Ok("goto")
      [] t.kind = "If" -> CatAll(<<Ok("if("), OperandFmt(t.cond), Ok(")")>>)
      [] t.kind = "Switch" -> CatAll(<<Ok("switch("), LvalueFmt(t.discr), Ok(")")>>)
      [] t.kind = "SwitchInt" ->
            CatAll(<<Ok("switchInt("), LvalueFmt(t.discr), Ok(")")>>)
      [] t.kind = "Return" -> Ok("return")
      [] t.kind = "Resume" -> Ok("resume")
      [] t.kind = "Drop" -> CatAll(<<Ok("drop("), LvalueFmt(t.value), Ok(")")>>)
      [] t.kind = "Call" ->
            CatAll(<<IF IsSome(t.destination)
                     THEN Cat(LvalueFmt(Unwrap(t.destination)[1]), Ok(" = "))
                     ELSE Ok(""),
                     OperandFmt(t.func), Ok("("), ArgsFmt(t.args, 1), Ok(")")>>)

RECURSIVE EdgesFmt_FirstLabelOnly(_, _, _)
EdgesFmt_FirstLabelOnly(successors, labels, i) ==
    IF i > Len(successors) THEN ""
    ELSE (IF i > 1 THEN ", " ELSE labels[i] \o ": ")
         \o BasicBlockFmt(successors[i])
         \o EdgesFmt_FirstLabelOnly(successors, labels, i + 1)

\* The list of two or more successors: "label: bbN" separated by ", ".
RECURSIVE EdgesFmt(_, _, _)
EdgesFmt(successors, labels, i) ==
    IF i > Len(successors) THEN ""
    ELSE (IF i > 1 THEN ", " ELSE "") \o labels[i] \o ": "
         \o BasicBlockFmt(successors[i]) \o EdgesFmt(successors, labels, i + 1)

\* impl Debug for TerminatorKind: the locals successors and labels, whether
\* the assert_eq on their lengths failed, and the text written or the panic.
Fmt(t) ==
    LET head == FmtHead(t)
        successors == Successors(t)
        labels == FmtSuccessorLabels(t)
        out(res, asserted) ==
            [successors |-> successors, labels |-> labels,
             assert_failed |-> asserted, res |-> res]
    IN  IF head.panic THEN out(head, FALSE)
        ELSE IF labels.panic THEN out(labels, FALSE)
        ELSE IF Len(successors) # Len(labels.val)
             THEN out(Panic("assertion failed: successors.len() = labels.len()"), TRUE)
        ELSE IF Len(successors) = 0 THEN out(head, FALSE)
        ELSE IF Len(successors) = 1
             THEN out(Cat(head, Ok(" -> " \o BasicBlockFmt(successors[1]))), FALSE)
        ELSE out(Cat(head, Ok(" -> [" \o EdgesFmt(successors, labels.val, 1) \o "]")),
                 FALSE)

---------------------------------------------------------------------------
(* The terminators a function body is published with.  The lowering stage   *)
(* builds a Switch with one target per variant of the type switched over,  *)
(* and a SwitchInt with one target per listed value plus the fallback, and *)
(* never with the Dummy literal.                                           *)

BlockIds == 0..(MaxBlocks - 1)

SampleLvalues == {Var(0), Temp(1)}

SampleOperands == {Consume(Arg(0)), Constant(Bool(TRUE))}

SampleArgs == {<<>>, <<Consume(Var(0)), Constant(Integral(10))>>}

SwitchValues == {Integral(7), Integral(10), Bool(TRUE)}

VariantName(i) == <<"A", "B", "C", "D", "E", "F">>[i]

\* ty::AdtDef: the ordered list of the declared variants, each with its name.
AdtDef(n) == [variants |-> [i \in 1..n |-> [name |-> VariantName(i)]]]

AdtDefs == {AdtDef(n) : n \in 0..MaxVariants}

SwitchTerminators ==
    UNION {{Switch(lv, adt, targets) : lv \in SampleLvalues,
                                       targets \in [1..Len(adt.variants) -> BlockIds]}
           : adt \in AdtDefs}

SwitchIntTerminators ==
    UNION {{SwitchInt(lv, "T", values, targets) :
                lv \in SampleLvalues, targets \in [1..(Len(values) + 1) -> BlockIds]}
           : values \in SeqsUpTo(SwitchValues, MaxValues)}

OptionOf(S) == {None} \cup {Some(x) : x \in S}

ProducedTerminators ==
    {Goto(b) : b \in BlockIds}
    \cup {If(c, bs) : c \in SampleOperands, bs \in BlockIds \X BlockIds}
    \cup SwitchTerminators
    \cup SwitchIntTerminators
    \cup {Resume, Return}
    \cup {Drop(lv, b, u) : lv \in SampleLvalues, b \in BlockIds, u \in OptionOf(BlockIds)}
    \cup {Call(f, as, d, c) : f \in SampleOperands, as \in SampleArgs,
                              d \in OptionOf({ReturnPointer} \X BlockIds),
                              c \in OptionOf(BlockIds)}

---------------------------------------------------------------------------
(* SpecTerm: one terminator, and the functions of TerminatorKind on it.    *)

Idle == [op |-> "none"]

InitTerm ==
    /\ basic_blocks = <<>>
    /\ lvalues = <<>>
    /\ term \in ProducedTerminators
    /\ ret = Idle

CallSuccessors ==
    /\ ret' = [op |-> "successors", res |-> Ok(Successors(term))]
    /\ UNCHANGED <<basic_blocks, term, lvalues>>

CallSuccessorsMut ==
    /\ ret' = [op |-> "successors_mut", res |-> Ok(SuccessorsMut(term))]
    /\ UNCHANGED <<basic_blocks, term, lvalues>>

CallFmtSuccessorLabels ==
    /\ ret' = [op |-> "fmt_successor_labels", res |-> FmtSuccessorLabels(term)]
    /\ UNCHANGED <<basic_blocks, term, lvalues>>

CallFmt ==
    /\ ret' = [op |-> "fmt", fmt |-> Fmt(term), res |-> Fmt(term).res]
    /\ UNCHANGED <<basic_blocks, term, lvalues>>

\* A pass retargets one edge: *successors_mut()[k] = b.
Retarget(k, b) ==
    /\ k \in 1..Len(SuccessorsMut(term))
    /\ term' = WriteBlock(term, SuccessorsMut(term)[k], b)
    /\ ret' = [op |-> "retarget", k |-> k, b |-> b, before |-> term]
    /\ UNCHANGED <<basic_blocks, lvalues>>

NextTerm ==
    \/ CallSuccessors
    \/ CallSuccessorsMut
    \/ CallFmtSuccessorLabels
    \/ CallFmt
    \/ \E k \in 1..Len(SuccessorsMut(term)), b \in BlockIds : Retarget(k, b)

SpecTerm == InitTerm /\ [][NextTerm]_vars

---------------------------------------------------------------------------
(* SpecIndex: the constructors of the index newtypes.                      *)

InitIndex ==
    /\ basic_blocks = <<>>
    /\ lvalues = <<>>
    /\ term = Return
    /\ ret = Idle

CallNew(ty, i) ==
    /\ ret' = [op |-> "new", ty |-> ty, arg |-> i, res |-> IndexNew(ty, i)]
    /\ UNCHANGED <<basic_blocks, term, lvalues>>

\* new(i).index(), on the value the last call of new returned.
CallIndex ==
    /\ ret.op = "new"
    /\ ~ret.res.panic
    /\ ret' = [op |-> "index", ty |-> ret.ty, arg |-> ret.arg, self |-> ret.res.val,
               res |-> Ok(IndexIndex(ret.ty, ret.res.val))]
    /\ UNCHANGED <<basic_blocks, term, lvalues>>

NextIndex ==
    \/ \E ty \in IndexTypes, i \in Usize : CallNew(ty, i)
    \/ CallIndex

SpecIndex == InitIndex /\ [][NextIndex]_vars

---------------------------------------------------------------------------
(* Spec: a function body.  The builder starts each block without a         *)
(* terminator and terminates it later; a pass may swap a terminator out    *)
(* with None while it restructures the block, and puts one back.           *)

\* struct Terminator
Terminator(kind) == [span |-> "span", scope |-> 0, kind |-> kind]

\* BasicBlockData::new
BasicBlockDataNew(terminator) ==
    [statements |-> <<>>, terminator |-> terminator, is_cleanup |-> FALSE]

\* Terminator::successors
TerminatorSuccessors(self) == Successors(self.kind)

BlockTerminator_AbsentAsReturn(self) ==
    IF IsSome(self.terminator) THEN Ok(Unwrap(self.terminator))
    ELSE Ok(Terminator(Return))

\* BasicBlockData::terminator
BlockTerminator(self) ==
    IF IsSome(self.terminator) THEN Ok(Unwrap(self.terminator))
    ELSE Panic("invalid terminator state")

\* BasicBlockData::terminator_mut
BlockTerminatorMut(self) ==
    IF IsSome(self.terminator) THEN Ok(Unwrap(self.terminator))
    ELSE Panic("invalid terminator state")

\* A traversal's step from a block: data.terminator().successors()
BlockSuccessors(self) ==
    LET t == BlockTerminator(self)
    IN  IF t.panic THEN t ELSE Ok(TerminatorSuccessors(t.val))

\* A traversal's labels of the edges from a block:
\* data.terminator().kind.fmt_successor_labels()
BlockSuccessorLabels(self) ==
    LET t == BlockTerminator(self)
    IN  IF t.panic THEN t ELSE FmtSuccessorLabels(t.val.kind)

\* The statement x = 1 + 2: StatementKind::Assign of an Rvalue::BinaryOp.
AssignSum ==
    [span |-> "span", scope |-> 0,
     kind |-> [kind |-> "Assign", lvalue |-> Var(0),
               rvalue |-> [kind |-> "BinaryOp", op |-> "Add",
                           lhs |-> Constant(Integral(1)),
                           rhs |-> Constant(Integral(2))]]]

\* The block at index bb (a Vec is indexed from 0).
BlockAt(bb) == basic_blocks[bb + 1]

BlocksIn == 0..(Len(basic_blocks) - 1)

RECURSIVE StatementCount(_)
StatementCount(blocks) ==
    IF blocks = <<>> THEN 0
    ELSE Len(Head(blocks).statements) + StatementCount(Tail(blocks))

MirBasicBlockData_ClampedToLast(blocks, bb) ==
    IF BasicBlockIndex(bb) < Len(blocks) THEN Ok(blocks[BasicBlockIndex(bb) + 1])
    ELSE IF Len(blocks) > 0 THEN Ok(blocks[Len(blocks)])
    ELSE Panic("index out of bounds")

\* Mir::basic_block_data: &self.basic_blocks[bb.index()], where indexing a
\* Vec at or past its length panics.
MirBasicBlockData(blocks, bb) ==
    IF BasicBlockIndex(bb) < Len(blocks) THEN Ok(blocks[BasicBlockIndex(bb) + 1])
    ELSE Panic("index out of bounds")

\* Mir::basic_block_data_mut: &mut self.basic_blocks[bb.index()]
MirBasicBlockDataMut(blocks, bb) ==
    IF BasicBlockIndex(bb) < Len(blocks) THEN Ok(blocks[BasicBlockIndex(bb) + 1])
    ELSE Panic("index out of bounds")

\* impl Index<BasicBlock> for Mir
MirIndex(blocks, index) == MirBasicBlockData(blocks, index)

\* impl IndexMut<BasicBlock> for Mir
MirIndexMut(blocks, index) == MirBasicBlockDataMut(blocks, index)

\* The block indices a caller may hold: those of the body's blocks and those
\* at and past its end.
HeldBlockIds == 0..MaxBlocks

\* The terminators the body's blocks are given, over the blocks it has.
BodyTerminators ==
    LET ids == BlocksIn
    IN  {Terminator(k) : k \in
            {Return, Resume}
            \cup {Goto(b) : b \in ids}
            \cup {If(Consume(Arg(0)), bs) : bs \in ids \X ids}}

Init ==
    /\ basic_blocks = <<>>
    /\ lvalues = <<>>
    /\ term = Return
    /\ ret = Idle

StartNewBlock ==
    /\ Len(basic_blocks) < MaxBlocks
    /\ basic_blocks' = Append(basic_blocks, BasicBlockDataNew(None))
    /\ ret' = Idle
    /\ UNCHANGED <<term, lvalues>>

PushStatement(bb, stmt) ==
    /\ StatementCount(basic_blocks) < MaxStatements
    /\ basic_blocks' = [basic_blocks EXCEPT ![bb + 1].statements = Append(@, stmt)]
    /\ ret' = Idle
    /\ UNCHANGED <<term, lvalues>>

Terminate(bb, t) ==
    /\ ~IsSome(BlockAt(bb).terminator)
    /\ basic_blocks' = [basic_blocks EXCEPT ![bb + 1].terminator = Some(t)]
    /\ ret' = Idle
    /\ UNCHANGED <<term, lvalues>>

TakeTerminator(bb) ==
    /\ IsSome(BlockAt(bb).terminator)
    /\ basic_blocks' = [basic_blocks EXCEPT ![bb + 1].terminator = None]
    /\ ret' = Idle
    /\ UNCHANGED <<term, lvalues>>

CallTerminator(bb) ==
    /\ ret' = [op |-> "terminator", bb |-> bb, res |-> BlockTerminator(BlockAt(bb))]
    /\ UNCHANGED <<basic_blocks, term, lvalues>>

CallTerminatorMut(bb) ==
    /\ ret' = [op |-> "terminator_mut", bb |-> bb,
               res |-> BlockTerminatorMut(BlockAt(bb))]
    /\ UNCHANGED <<basic_blocks, term, lvalues>>

CallBlockSuccessors(bb) ==
    /\ ret' = [op |-> "block_successors", bb |-> bb,
               res |-> BlockSuccessors(BlockAt(bb))]
    /\ UNCHANGED <<basic_blocks, term, lvalues>>

CallBlockSuccessorLabels(bb) ==
    /\ ret' = [op |-> "block_successor_labels", bb |-> bb,
               res |-> BlockSuccessorLabels(BlockAt(bb))]
    /\ UNCHANGED <<basic_blocks, term, lvalues>>

Next ==
    \/ StartNewBlock
    \/ \E bb \in BlocksIn : PushStatement(bb, AssignSum)
    \/ \E bb \in BlocksIn, t \in BodyTerminators : Terminate(bb, t)
    \/ \E bb \in BlocksIn : TakeTerminator(bb)
    \/ \E bb \in BlocksIn : CallTerminator(bb)
    \/ \E bb \in BlocksIn : CallTerminatorMut(bb)
    \/ \E bb \in BlocksIn : CallBlockSuccessors(bb)
    \/ \E bb \in BlocksIn : CallBlockSuccessorLabels(bb)

Spec == Init /\ [][Next]_vars

---------------------------------------------------------------------------
(* SpecAccess: the indexed accessors of a function body, on the block      *)
(* lists the builder of Spec leaves: blocks with no statements, with or    *)
(* without their terminator.                                               *)

SampleBlocks ==
    {BasicBlockDataNew(t) :
        t \in OptionOf({Terminator(Return), Terminator(Resume), Terminator(Goto(0))})}

InitAccess ==
    /\ basic_blocks \in SeqsUpTo(SampleBlocks, MaxBlocks)
    /\ lvalues = <<>>
    /\ term = Return
    /\ ret = Idle

CallBasicBlockData(bb) ==
    /\ ret' = [op |-> "basic_block_data", bb |-> bb,
               res |-> MirBasicBlockData(basic_blocks, bb)]
    /\ UNCHANGED <<basic_blocks, term, lvalues>>

CallBasicBlockDataMut(bb) ==
    /\ ret' = [op |-> "basic_block_data_mut", bb |-> bb,
               res |-> MirBasicBlockDataMut(basic_blocks, bb)]
    /\ UNCHANGED <<basic_blocks, term, lvalues>>

CallMirIndex(bb) ==
    /\ ret' = [op |-> "index", bb |-> bb, res |-> MirIndex(basic_blocks, bb)]
    /\ UNCHANGED <<basic_blocks, term, lvalues>>

CallMirIndexMut(bb) ==
    /\ ret' = [op |-> "index_mut", bb |-> bb, res |-> MirIndexMut(basic_blocks, bb)]
    /\ UNCHANGED <<basic_blocks, term, lvalues>>

NextAccess ==
    \/ \E bb \in HeldBlockIds : CallBasicBlockData(bb)
    \/ \E bb \in HeldBlockIds : CallBasicBlockDataMut(bb)
    \/ \E bb \in HeldBlockIds : CallMirIndex(bb)
    \/ \E bb \in HeldBlockIds : CallMirIndexMut(bb)

SpecAccess == InitAccess /\ [][NextAccess]_vars

---------------------------------------------------------------------------
(* SpecLvalue: places.  A caller holds a root place and builds further     *)
(* places from clones of the ones it holds; elem takes its receiver by     *)
(* value, so the place built from stays held only as the clone's original. *)

\* BorrowKind::Shared, BorrowKind::Unique, BorrowKind::Mut
Shared == [kind |-> "Shared"]

Unique == [kind |-> "Unique"]

Mut == [kind |-> "Mut"]

BorrowKinds == {Shared, Unique, Mut}

\* Rvalue::Ref(Region, BorrowKind, Lvalue)
Ref(region, borrow_kind, lv) ==
    [kind |-> "Ref", region |-> region, borrow_kind |-> borrow_kind, lvalue |-> lv]

RvalueFmtRef_UniqueAsShared(rv) ==
    Cat(Ok("&" \o (IF rv.borrow_kind \in {Shared, Unique} THEN "" ELSE "mut ")),
        LvalueFmt(rv.lvalue))

\* impl Debug for Rvalue, the Ref arm
RvalueFmtRef(rv) ==
    LET kind_str == CASE rv.borrow_kind = Shared -> ""
                      [] rv.borrow_kind \in {Mut, Unique} -> "mut "
    IN  Cat(Ok("&" \o kind_str), LvalueFmt(rv.lvalue))

SampleRoots == {Var(3), ReturnPointer}

SampleFields == {FieldNew(1).val}

SampleTys == {Ty("T")}

SampleIndexOperands == {Consume(Var(0))}

\* The projection steps handed to elem; the last Downcast names a variant
\* the type does not have.
SampleElems ==
    {Deref, ConstantIndex(1, 4, FALSE), ConstantIndex(2, 4, TRUE),
     Downcast(AdtDef(2), 1), Downcast(AdtDef(2), 2)}
    \cup {Field(f, ty) : f \in SampleFields, ty \in SampleTys}
    \cup {Index(v) : v \in SampleIndexOperands}

InitLvalue ==
    /\ basic_blocks = <<>>
    /\ term = Return
    /\ lvalues \in {<<root>> : root \in SampleRoots}
    /\ ret = Idle

\* The held place at position at is cloned and the clone extended; the
\* result is held too.
Built(op, at, elem, result) ==
    /\ Len(lvalues) < MaxPlaces
    /\ lvalues' = Append(lvalues, result)
    /\ ret' = [op |-> op, at |-> at, elem |-> elem, before |-> lvalues]
    /\ UNCHANGED <<basic_blocks, term>>

CallLvalueElem(at, elem) ==
    Built("elem", at, elem, LvalueElem(lvalues[at], elem))

CallLvalueField(at, f, ty) ==
    Built("field", at, Field(f, ty), LvalueField(lvalues[at], f, ty))

CallLvalueDeref(at) ==
    Built("deref", at, Deref, LvalueDeref(lvalues[at]))

CallLvalueIndex(at, index) ==
    Built("index", at, Index(index), LvalueIndex(lvalues[at], index))

CallLvalueFmt(at) ==
    /\ ret' = [op |-> "lvalue_fmt", at |-> at, res |-> LvalueFmt(lvalues[at])]
    /\ UNCHANGED <<basic_blocks, term, lvalues>>

CallRvalueFmt(borrow_kind, at) ==
    /\ ret' = [op |-> "rvalue_fmt", rvalue |-> Ref("'a", borrow_kind, lvalues[at]),
               res |-> RvalueFmtRef(Ref("'a", borrow_kind, lvalues[at]))]
    /\ UNCHANGED <<basic_blocks, term, lvalues>>

NextLvalue ==
    \/ \E at \in 1..Len(lvalues), elem \in SampleElems : CallLvalueElem(at, elem)
    \/ \E at \in 1..Len(lvalues), f \in SampleFields, ty \in SampleTys :
           CallLvalueField(at, f, ty)
    \/ \E at \in 1..Len(lvalues) : CallLvalueDeref(at)
    \/ \E at \in 1..Len(lvalues), index \in SampleIndexOperands :
           CallLvalueIndex(at, index)
    \/ \E at \in 1..Len(lvalues) : CallLvalueFmt(at)
    \/ \E borrow_kind \in BorrowKinds, at \in 1..Len(lvalues) :
           CallRvalueFmt(borrow_kind, at)

SpecLvalue == InitLvalue /\ [][NextLvalue]_vars

---------------------------------------------------------------------------
(* SpecDummy: constants and SwitchInt terminators as any caller of this    *)
(* file can construct them, the Dummy literal included.                    *)

\* The constant values a caller can hand over.
AnyValues == SwitchValues \cup {Dummy}

\* SwitchInt terminators with one target per value and the fallback, over
\* AnyValues.
AnySwitchIntTerminators ==
    UNION {{SwitchInt(lv, "T", values, targets) :
                lv \in SampleLvalues, targets \in [1..(Len(values) + 1) -> BlockIds]}
           : values \in SeqsUpTo(AnyValues, MaxValues)}

HasDummy(values) == \E i \in 1..Len(values) : values[i].kind = "Dummy"

InitDummy ==
    /\ basic_blocks = <<>>
    /\ lvalues = <<>>
    /\ term \in AnySwitchIntTerminators
    /\ ret = Idle

CallFmtConstVal(const_val) ==
    /\ ret' = [op |-> "fmt_const_val", value |-> const_val, res |-> FmtConstVal(const_val)]
    /\ UNCHANGED <<basic_blocks, term, lvalues>>

\* Debug of a Constant, which is that of its literal
CallConstantFmt(const_val) ==
    /\ ret' = [op |-> "constant_fmt", value |-> const_val,
               res |-> LiteralFmt(Constant(const_val).literal)]
    /\ UNCHANGED <<basic_blocks, term, lvalues>>

NextDummy ==
    \/ \E const_val \in AnyValues : CallFmtConstVal(const_val)
    \/ \E const_val \in AnyValues : CallConstantFmt(const_val)
    \/ CallFmtSuccessorLabels
    \/ CallFmt

SpecDummy == InitDummy /\ [][NextDummy]_vars

---------------------------------------------------------------------------
(* What the last call on the terminator of SpecTerm returned.              *)

\* The successors seen are s: by a call of successors(), and by fmt().
SuccessorsAre(s) ==
    /\ ret.op = "successors" => ret.res = Ok(s)
    /\ ret.op = "fmt" => ret.fmt.successors = s

\* The labels seen are l: by a call of fmt_successor_labels(), and by fmt().
LabelsAre(l) ==
    /\ ret.op = "fmt_successor_labels" => ret.res = Ok(l)
    /\ ret.op = "fmt" => ret.fmt.labels = Ok(l)

---------------------------------------------------------------------------
(* The claims.                                                             *)

C4_CallEdgesAndLabels ==
    term.kind = "Call" =>
        LET d == IsSome(term.destination)
            c == IsSome(term.cleanup)
        IN  /\ SuccessorsAre((IF d THEN <<term.destination[1][2]>> ELSE <<>>)
                             \o (IF c THEN <<term.cleanup[1]>> ELSE <<>>))
            /\ LabelsAre((IF d THEN <<"return">> ELSE <<>>)
                         \o (IF c THEN <<"unwind">> ELSE <<>>))

\* A Call with a continuation and a different cleanup block has been rendered.
C4_Witness ==
    /\ term.kind = "Call"
    /\ IsSome(term.destination)
    /\ IsSome(term.cleanup)
    /\ term.destination[1][2] # term.cleanup[1]
    /\ ret.op = "fmt"
    /\ ret.fmt.successors = <<term.destination[1][2], term.cleanup[1]>>
    /\ ret.fmt.labels = Ok(<<"return", "unwind">>)

\* C5: for every Drop, successors() is <<target>> with the labels <<"return">>
\* without an unwind target, and <<target, unwind>> with the labels
\* <<"return", "unwind">> with one.
C5_DropEdgesAndLabels ==
    term.kind = "Drop" =>
        IF IsSome(term.unwind)
        THEN /\ SuccessorsAre(<<term.target, term.unwind[1]>>)
             /\ LabelsAre(<<"return", "unwind">>)
        ELSE /\ SuccessorsAre(<<term.target>>)
             /\ LabelsAre(<<"return">>)

\* A Drop with an unwind target other than its target has been rendered.
C5_Witness ==
    /\ term.kind = "Drop"
    /\ IsSome(term.unwind)
    /\ term.unwind[1] # term.target
    /\ ret.op = "fmt"
    /\ ret.fmt.successors = <<term.target, term.unwind[1]>>

\* C6: for every If with the targets (t, e), successors() is <<t, e>>, also
\* when t = e, and the labels are <<"true", "false">>.
C6_IfEdgesAndLabels ==
    term.kind = "If" =>
        /\ SuccessorsAre(<<term.targets[1], term.targets[2]>>)
        /\ LabelsAre(<<"true", "false">>)

\* An If with two different targets has been rendered.
C6_Witness ==
    /\ term.kind = "If"
    /\ term.targets[1] # term.targets[2]
    /\ ret.op = "fmt"
    /\ ret.fmt.successors = <<term.targets[1], term.targets[2]>>
    /\ ret.fmt.labels = Ok(<<"true", "false">>)

\* C7: a Goto has exactly one successor, its target, with the one label "",
\* and Return and Resume have no successor and no label; so in the body
\* B0 = {x = 1 + 2; goto B1}, B1 = {return}, the successors of B0 are <<B1>>
\* with the labels <<"">>, and B1 has no successor and no label.
C7_GotoReturnResumeEdges ==
    (ret.op \in {"block_successors", "block_successor_labels"}
        /\ IsSome(BlockAt(ret.bb).terminator)) =>
        LET k == Unwrap(BlockAt(ret.bb).terminator).kind
        IN  /\ (k.kind = "Goto" /\ ret.op = "block_successors") =>
                    ret.res = Ok(<<k.target>>)
            /\ (k.kind = "Goto" /\ ret.op = "block_successor_labels") =>
                    ret.res = Ok(<<"">>)
            /\ k.kind \in {"Return", "Resume"} =>
                    (~ret.res.panic /\ Len(ret.res.val) = 0)

\* The body B0 = {x = 1 + 2; goto B1}, B1 = {return}, and the successors of B0.
C7_Witness ==
    /\ basic_blocks =
          <<[statements |-> <<AssignSum>>, terminator |-> Some(Terminator(Goto(1))),
             is_cleanup |-> FALSE],
            [statements |-> <<>>, terminator |-> Some(Terminator(Return)),
             is_cleanup |-> FALSE]>>
    /\ ret = [op |-> "block_successors", bb |-> 0, res |-> Ok(<<1>>)]

\* C8: for every terminator, successors_mut() has as many entries as
\* successors(), and its i-th entry refers to the i-th block of successors().
C8_SuccessorsMutMatchesSuccessors ==
    ret.op = "successors_mut" =>
        LET refs == ret.res.val
            s == Successors(term)
        IN  /\ Len(refs) = Len(s)
            /\ \A i \in 1..Len(s) : DerefBlock(term, refs[i]) = s[i]
            /\ \A i, j \in 1..Len(refs) : i # j => refs[i] # refs[j]

\* successors_mut() of a Call with a continuation and a different cleanup block.
C8_Witness ==
    /\ ret.op = "successors_mut"
    /\ term.kind = "Call"
    /\ Len(ret.res.val) = 2
    /\ DerefBlock(term, ret.res.val[1]) # DerefBlock(term, ret.res.val[2])

\* C9: for each index type, new(i) panics for every i >= u32::MAX, and for
\* every smaller i it returns an index x with x.index() = i.
C9_IndexNew ==
    /\ ret.op = "new" =>
          (ret.res.panic <=> ret.arg >= U32_MAX)
    /\ ret.op = "index" =>
          /\ ret.arg < U32_MAX
          /\ ret.res = Ok(ret.arg)

\* new(u32::MAX) has panicked.
C9_Witness ==
    /\ ret.op = "new"
    /\ ret.arg = U32_MAX
    /\ ret.res.panic

\* C10: terminator() and terminator_mut() panic with the internal-invariant
\* error exactly when the block's terminator is None, and otherwise return the
\* stored terminator; the successors of a block without a terminator are never
\* reported as the empty list.
C10_TerminatorAccessor ==
    /\ ret.op \in {"terminator", "terminator_mut"} =>
          LET stored == BlockAt(ret.bb).terminator
          IN  /\ ret.res.panic <=> stored = None
              /\ ret.res.panic => ret.res.msg = "invalid terminator state"
              /\ ~ret.res.panic => ret.res.val = Unwrap(stored)
    /\ (ret.op = "block_successors" /\ BlockAt(ret.bb).terminator = None) =>
          ret.res.panic

\* One block of a two-block body has no terminator while the other has one,
\* and a traversal asked for the successors of the block without.
C10_Witness ==
    /\ Len(basic_blocks) = 2
    /\ ret.op = "block_successors"
    /\ BlockAt(ret.bb).terminator = None
    /\ IsSome(BlockAt(1 - ret.bb).terminator)
    /\ ret.res.panic

\* C11: basic_block_data, basic_block_data_mut and the Index and IndexMut
\* operators of a function body panic with an out-of-range error when the
\* block index is not less than the number of blocks, and otherwise return the
\* block stored at that position of the block list.
C11_IndexedBlockAccess ==
    ret.op \in {"basic_block_data", "basic_block_data_mut", "index", "index_mut"} =>
        /\ ret.res.panic <=> ret.bb >= Len(basic_blocks)
        /\ ret.res.panic => ret.res.msg = "index out of bounds"
        /\ ~ret.res.panic => ret.res.val = basic_blocks[ret.bb + 1]

\* A body of one terminated block has been indexed at 1, one past its end.
C11_Witness ==
    /\ Len(basic_blocks) = 1
    /\ IsSome(basic_blocks[1].terminator)
    /\ ret.op = "index"
    /\ ret.bb = 1
    /\ ret.res.panic

\* C17: writing a new block through the k-th element of successors_mut()
\* changes only that edge: afterwards successors() has the same length, its
\* k-th entry is the new block and every other entry is as before, the
\* variant and the successor labels are unchanged, and the number of
\* successors still equals the number of labels.
C17_RetargetChangesOneEdge ==
    ret.op = "retarget" =>
        LET old == Successors(ret.before)
            new == Successors(term)
        IN  /\ Len(new) = Len(old)
            /\ new[ret.k] = ret.b
            /\ \A i \in 1..Len(old) : i # ret.k => new[i] = old[i]
            /\ term.kind = ret.before.kind
            /\ FmtSuccessorLabels(term) = FmtSuccessorLabels(ret.before)
            /\ ~FmtSuccessorLabels(term).panic
            /\ Len(new) = Len(FmtSuccessorLabels(term).val)

\* The drop edge of a Drop with an unwind edge has been moved to another
\* block, and the unwind edge is a third one.
C17_Witness ==
    /\ ret.op = "retarget"
    /\ term.kind = "Drop"
    /\ IsSome(term.unwind)
    /\ ret.k = 1
    /\ ret.b # ret.before.target
    /\ term.target = ret.b
    /\ Unwrap(term.unwind) # ret.b

\* The expected list of the first n labelled edges, built from its end.
RECURSIVE LabelledEdges(_, _, _)
LabelledEdges(successors, labels, n) ==
    IF n = 0 THEN ""
    ELSE LabelledEdges(successors, labels, n - 1)
         \o (IF n = 1 THEN "" ELSE ", ")
         \o labels[n] \o ": bb" \o NatToStr(successors[n])

\* C18: a terminator renders as its head followed by nothing when it has no
\* successor, by " -> bbN" without a label when it has one, and by
\* " -> [label0: bbA, label1: bbB, ...]" when it has two or more, the labels
\* paired with the successors position by position.
C18_TerminatorRendering ==
    (ret.op = "fmt" /\ ~ret.res.panic) =>
        LET head == FmtHead(term).val
            successors == Successors(term)
            labels == FmtSuccessorLabels(term).val
            n == Len(successors)
        IN  /\ n = 0 => ret.res.val = head
            /\ n = 1 => ret.res.val = head \o " -> bb" \o NatToStr(successors[1])
            /\ n >= 2 => ret.res.val =
                   head \o " -> [" \o LabelledEdges(successors, labels, n) \o "]"
            /\ term = Return => ret.res.val = "return"
            /\ term = Goto(1) => ret.res.val = "goto -> bb1"
            /\ term = If(Consume(Arg(0)), <<0, 1>>) =>
                   ret.res.val = "if(arg0) -> [true: bb0, false: bb1]"
            /\ term = Drop(Var(0), 1, Some(0)) =>
                   ret.res.val = "drop(var0) -> [return: bb1, unwind: bb0]"

\* An If has been rendered with both of its labelled edges.
C18_Witness ==
    /\ ret.op = "fmt"
    /\ term = If(Consume(Arg(0)), <<0, 1>>)
    /\ ret.res = Ok("if(arg0) -> [true: bb0, false: bb1]")

\* The place-building calls.
BuildOps == {"elem", "field", "deref", "index"}

\* C12: elem, field, deref and index never mutate an existing place: the
\* result is a new Projection whose base is structurally equal to the place
\* it was built from and whose element is the given step, and every place
\* held before the call, the one built from included, is unchanged.
C12_BuildingLeavesPlacesUnchanged ==
    ret.op \in BuildOps =>
        /\ Len(lvalues) = Len(ret.before) + 1
        /\ lvalues[Len(lvalues)].kind = "Projection"
        /\ lvalues[Len(lvalues)].base = ret.before[ret.at]
        /\ lvalues[Len(lvalues)].elem = ret.elem
        /\ \A j \in 1..Len(ret.before) : lvalues[j] = ret.before[j]
        /\ ret.op = "field" => ret.elem.kind = "Field"
        /\ ret.op = "deref" => ret.elem = Deref
        /\ ret.op = "index" => ret.elem.kind = "Index"

\* A place that is itself a projection has been built from by deref().
C12_Witness ==
    /\ ret.op = "deref"
    /\ ret.at = 2
    /\ Len(lvalues) = 3
    /\ lvalues[2].kind = "Projection"
    /\ lvalues[3] = Projection(lvalues[2], Deref)

\* C13: a projection renders around the rendering of its base: Deref as
\* "(*base)", Field(n, T) as "(base.n: T)", Downcast to variant V as
\* "(base as V)", Index(i) as "base[i]", ConstantIndex as "base[o of m]" and,
\* counted from the end, as "base[-o of m]"; so var3 .field(1, T) .deref()
\* renders as "(*(var3.1: T))".
C13_PlaceRendering ==
    (ret.op = "lvalue_fmt" /\ lvalues[ret.at].kind = "Projection") =>
        LET lv == lvalues[ret.at]
            elem == lv.elem
            base == LvalueFmt(lv.base)
        IN  /\ ~base.panic =>
                /\ elem.kind = "Deref" => ret.res = Ok("(*" \o base.val \o ")")
                /\ elem.kind = "Field" =>
                       ret.res = Ok("(" \o base.val \o "." \o NatToStr(elem.field)
                                    \o ": " \o elem.ty.name \o ")")
                /\ (elem.kind = "Downcast" /\ elem.index < Len(elem.adt_def.variants)) =>
                       ret.res = Ok("(" \o base.val \o " as "
                                    \o elem.adt_def.variants[elem.index + 1].name \o ")")
                /\ (elem.kind = "Index" /\ ~OperandFmt(elem.index).panic) =>
                       ret.res = Ok(base.val \o "[" \o OperandFmt(elem.index).val \o "]")
                /\ (elem.kind = "ConstantIndex" /\ ~elem.from_end) =>
                       ret.res = Ok(base.val \o "[" \o NatToStr(elem.offset) \o " of "
                                    \o NatToStr(elem.min_length) \o "]")
                /\ (elem.kind = "ConstantIndex" /\ elem.from_end) =>
                       ret.res = Ok(base.val \o "[-" \o NatToStr(elem.offset) \o " of "
                                    \o NatToStr(elem.min_length) \o "]")
            /\ lv = Projection(Projection(Var(3), Field(1, Ty("T"))), Deref) =>
                   ret.res = Ok("(*(var3.1: T))")
            /\ lv = Projection(Var(3), Downcast(AdtDef(2), 1)) =>
                   ret.res = Ok("(var3 as B)")
            /\ lv = Projection(Projection(ReturnPointer, Index(Consume(Var(0)))),
                               ConstantIndex(2, 4, TRUE)) =>
                   ret.res = Ok("return[var0][-2 of 4]")
            /\ lv = Projection(Var(3), ConstantIndex(1, 4, FALSE)) =>
                   ret.res = Ok("var3[1 of 4]")

\* var3 .field(1, T) .deref() has been built and rendered.
C13_Witness ==
    /\ ret.op = "lvalue_fmt"
    /\ lvalues[ret.at] = LvalueDeref(LvalueField(Var(3), 1, Ty("T")))
    /\ ret.res = Ok("(*(var3.1: T))")

\* The outermost element of lv is a Downcast.
EndsInDowncast(lv) == lv.kind = "Projection" /\ lv.elem.kind = "Downcast"

\* Every Downcast in the path of lv that has a step after it has a Field
\* after it.
RECURSIVE DowncastOnlyBeforeField(_)
DowncastOnlyBeforeField(lv) ==
    lv.kind = "Projection" =>
        /\ EndsInDowncast(lv.base) => lv.elem.kind = "Field"
        /\ DowncastOnlyBeforeField(lv.base)

\* C14, as claimed: in every place built with elem, field, deref and index a
\* Downcast occurs only immediately before a Field.
C14_Original ==
    \A i \in 1..Len(lvalues) : DowncastOnlyBeforeField(lvalues[i])

\* C14, amended: the place-building calls check nothing about the step they
\* are given.  The place built has its Downcasts only immediately before
\* Fields exactly when the place built from has, and the step is a Field if
\* the outermost element of the place built from is a Downcast; keeping to
\* that is left to the caller.
C14_DowncastRuleIsTheCallers ==
    ret.op \in BuildOps =>
        LET self == ret.before[ret.at]
            built == lvalues[Len(lvalues)]
        IN  DowncastOnlyBeforeField(built) <=>
                /\ DowncastOnlyBeforeField(self)
                /\ EndsInDowncast(self) => ret.elem.kind = "Field"

\* deref() has been applied to a place whose outermost element is a Downcast,
\* and built a place that has a Deref after a Downcast.
C14_Witness ==
    /\ ret.op = "deref"
    /\ EndsInDowncast(ret.before[ret.at])
    /\ DowncastOnlyBeforeField(ret.before[ret.at])
    /\ ~DowncastOnlyBeforeField(lvalues[Len(lvalues)])

\* C19: a Ref over place p renders as "&p" for Shared and as "&mut p" for Mut
\* and for Unique, so two Refs over the same place that differ only in Mut
\* or Unique render the same, while Shared, Unique and Mut are three
\* pairwise different borrow kinds.
C19_RefRendering ==
    ret.op = "rvalue_fmt" =>
        LET rv == ret.rvalue
            p == LvalueFmt(rv.lvalue)
        IN  /\ ~p.panic =>
                /\ rv.borrow_kind = Shared => ret.res = Ok("&" \o p.val)
                /\ rv.borrow_kind = Mut => ret.res = Ok("&mut " \o p.val)
                /\ rv.borrow_kind = Unique => ret.res = Ok("&mut " \o p.val)
            /\ RvalueFmtRef([rv EXCEPT !.borrow_kind = Mut])
                   = RvalueFmtRef([rv EXCEPT !.borrow_kind = Unique])
            /\ [rv EXCEPT !.borrow_kind = Mut] # [rv EXCEPT !.borrow_kind = Unique]
            /\ Cardinality(BorrowKinds) = 3
            /\ Shared # Unique /\ Shared # Mut /\ Unique # Mut

\* A Unique borrow of a field of var3 has been rendered with "&mut ".
C19_Witness ==
    /\ ret.op = "rvalue_fmt"
    /\ ret.rvalue.borrow_kind = Unique
    /\ ret.rvalue.lvalue = LvalueField(Var(3), 1, Ty("T"))
    /\ ret.res = Ok("&mut (var3.1: T)")

\* C15: the Dummy literal is fatal wherever it is met: fmt_const_val on it
\* and the rendering of a constant whose literal is it panic, and so do
\* fmt_successor_labels() and the rendering of a SwitchInt whose values
\* contain it; no text is returned.
C15_DummyIsFatal ==
    /\ (ret.op \in {"fmt_const_val", "constant_fmt"} /\ ret.value.kind = "Dummy") =>
           ret.res = Panic("bug!()")
    /\ (ret.op \in {"fmt_successor_labels", "fmt"} /\ term.kind = "SwitchInt"
            /\ HasDummy(term.values)) =>
           ret.res = Panic("bug!()")

\* The labels of a SwitchInt whose second value is Dummy have been asked for.
C15_Witness ==
    /\ ret.op = "fmt_successor_labels"
    /\ term.kind = "SwitchInt"
    /\ Len(term.values) = 2
    /\ term.values[1].kind # "Dummy"
    /\ term.values[2].kind = "Dummy"
    /\ ret.res.panic

=============================================================================
